---------------------------- MODULE Spec2Model ----------------------------
(***************************************************************************)
(* Model of reflecto (src/src/lib.rs): the MirrorList probe coordinator    *)
(* (update_download_rate), the ranker (sort) and the filter (filter).      *)
(*                                                                         *)
(* Value encodings                                                         *)
(*   Option<T>        record [some |-> BOOLEAN, v |-> T]                   *)
(*   f64 (rate)       record [nan, num, den]: num/den in lowest terms,     *)
(*                    den = 0 is +infinity, nan = TRUE is NaN              *)
(*   f64 (score)      record [inf, neg, giga, unit, tenth]:                *)
(*                    +/-(giga * 10^9 + unit + tenth / 10), or +infinity   *)
(*   DateTime<Utc>    seconds since 1970-01-01T00:00:00Z                   *)
(*   String           sequence of bytes                                    *)
(*   usize `left`     its representative modulo 2^64 nearest to zero, so   *)
(*                    that -1 stands for usize::MAX after a wrap           *)
(***************************************************************************)
EXTENDS Integers, Sequences, FiniteSets, TLC

VARIABLES
    input,            \* the directory as decoded, before the modelled call
    self_mirrors,     \* MirrorList.mirrors
    args,             \* the arguments of the modelled call
    pc,               \* position of the modelled call
    prev,             \* MirrorList.mirrors before the latest completed call
    mirrors,          \* update_download_rate: local `mirrors` (the clones)
    set,              \* update_download_rate: the JoinSet, one task per mirror
    ready,            \* the JoinSet's completion queue (task indices)
    left,             \* update_download_rate: local `left`
    overflow_checks   \* build profile: TRUE = debug (overflow panics)

vars == <<input, self_mirrors, args, pc, prev, mirrors, set, ready, left,
          overflow_checks>>

-----------------------------------------------------------------------------
(* Bounds of the model *)

MaxN == 3

Urls == {"u1", "u2"}

\* elapsed milliseconds and received bytes a completed probe may report
ProbeMillis == {2}

ProbeBytes == {0, 3}

-----------------------------------------------------------------------------
(* Generic helpers *)

Min(a, b) == IF a < b THEN a ELSE b

RECURSIVE Gcd(_, _)
Gcd(a, b) == IF b = 0 THEN a ELSE Gcd(b, a % b)

\* Rust integer division: truncation toward zero
TruncDiv(a, b) == IF a >= 0 THEN a \div b ELSE -((-a) \div b)

\* all sequences over S of length 0..n
RECURSIVE SeqsUpTo(_, _)
SeqsUpTo(S, n) ==
    IF n = 0 THEN {<<>>}
    ELSE LET shorter == SeqsUpTo(S, n - 1)
         IN  shorter \cup {Append(s, x) : s \in {t \in shorter : Len(t) = n - 1}, x \in S}

-----------------------------------------------------------------------------
(* Option values *)

NoRate == [some |-> FALSE, v |-> [nan |-> FALSE, num |-> 0, den |-> 1]]

SomeRate(r) == [some |-> TRUE, v |-> r]

NoF64 == [some |-> FALSE,
          v |-> [inf |-> FALSE, neg |-> FALSE, giga |-> 0, unit |-> 0, tenth |-> 0]]

SomeF64(x) == [some |-> TRUE, v |-> x]

NoTime == [some |-> FALSE, v |-> 0]

SomeTime(t) == [some |-> TRUE, v |-> t]

NoStr == [some |-> FALSE, v |-> <<>>]

SomeStr(s) == [some |-> TRUE, v |-> s]

NoBool == [some |-> FALSE, v |-> FALSE]

SomeBool(b) == [some |-> TRUE, v |-> b]

-----------------------------------------------------------------------------
(* Bandwidth *)

NaN == [nan |-> TRUE, num |-> 0, den |-> 0]

\* the f64 quotient n / d for n >= 0, d >= 0, not both zero
Quot(n, d) ==
    IF d = 0 THEN [nan |-> FALSE, num |-> 1, den |-> 0]
    ELSE LET g == Gcd(n, d) IN [nan |-> FALSE, num |-> n \div g, den |-> d \div g]

\* Bandwidth::from_duration(duration, bytes_quantity), duration in milliseconds
from_duration(ms, bytes_quantity) ==
    IF bytes_quantity = 0 THEN NaN
    ELSE Quot(bytes_quantity, 1000 * ms)

\* Bandwidth::default()
BandwidthDefault == [nan |-> FALSE, num |-> 0, den |-> 1]

\* derived PartialOrd of Bandwidth(f64): "None" when either side is NaN
partial_cmp(a, b) ==
    IF a.nan \/ b.nan THEN "None"
    ELSE LET l == a.num * b.den
             r == b.num * a.den
         IN  IF l < r THEN "Less" ELSE IF l > r THEN "Greater" ELSE "Equal"

-----------------------------------------------------------------------------
(* Mirror *)

Mirror(url, details) ==
    [url |-> url, protocol |-> "https", score |-> NoF64, delay |-> NoF64,
     country |-> NoStr, country_code |-> NoStr, last_sync |-> NoTime,
     isos |-> NoBool, ipv4 |-> NoBool, ipv6 |-> NoBool, details |-> details,
     download_rate |-> NoRate]

\* what one probe reports: an error, or the measured Bandwidth
ProbeOutcomes ==
    {[ok |-> FALSE, bw |-> BandwidthDefault]}
        \cup {[ok |-> TRUE, bw |-> from_duration(ms, b)] : ms \in ProbeMillis, b \in ProbeBytes}

\* Mirror::update_download_rate on success: the mirror with its rate set
Updated(m, bw) == [m EXCEPT !.download_rate = SomeRate(bw)]

-----------------------------------------------------------------------------
(* MirrorList::update_download_rate *)

NoTask == [st |-> "none", ok |-> FALSE, bw |-> BandwidthDefault]

Running == [st |-> "running", ok |-> FALSE, bw |-> BandwidthDefault]

ProbeDirs == {[i \in 1..Len(us) |-> Mirror(us[i], i)] : us \in SeqsUpTo(Urls, MaxN)}

Limits == 0..(MaxN + 1)

Init ==
    /\ input \in ProbeDirs
    /\ self_mirrors = input
    /\ args \in {[limit |-> l] : l \in Limits}
    /\ pc = "start"
    /\ prev = input
    /\ mirrors = <<>>
    /\ set = [i \in 1..MaxN |-> NoTask]
    /\ ready = <<>>
    /\ left = 0
    /\ overflow_checks \in BOOLEAN

\* lines 193-199: compute `left`, drain self.mirrors into clones and tasks
Launch ==
    /\ pc = "start"
    /\ left' = Min(Len(self_mirrors), args.limit)
    /\ mirrors' = self_mirrors
    /\ set' = [i \in 1..MaxN |-> IF i <= Len(self_mirrors) THEN Running ELSE NoTask]
    /\ self_mirrors' = <<>>
    /\ pc' = "join"
    /\ UNCHANGED <<input, args, prev, ready, overflow_checks>>

\* a spawned probe finishes (Mirror::update_download_rate returns)
TaskComplete(i) ==
    /\ pc \in {"join", "shutdown"}
    /\ set[i].st = "running"
    /\ \E o \in ProbeOutcomes :
          set' = [set EXCEPT ![i] = [st |-> "ready", ok |-> o.ok, bw |-> o.bw]]
    /\ ready' = Append(ready, i)
    /\ UNCHANGED <<input, self_mirrors, args, pc, prev, mirrors, left, overflow_checks>>

\* an early-exit test that never fires
EnoughNever(l) == FALSE

\* line 210: the early-exit test, left == 0
Enough(l) == l = 0

\* lines 200-205, 210-213: join_next yields a successful probe
JoinNextOk ==
    /\ pc = "join"
    /\ ready # <<>>
    /\ LET i == Head(ready) IN
         /\ set[i].ok
         /\ set' = [set EXCEPT ![i].st = "joined"]
         /\ ready' = Tail(ready)
         /\ self_mirrors' = Append(self_mirrors, Updated(mirrors[i], set[i].bw))
         /\ IF left = 0 /\ overflow_checks
               THEN \* `left -= 1` on 0usize: attempt to subtract with overflow
                    /\ pc' = "panicked"
                    /\ left' = left
               ELSE /\ left' = left - 1
                    /\ pc' = IF Enough(left - 1) THEN "shutdown" ELSE "join"
    /\ UNCHANGED <<input, args, prev, mirrors, overflow_checks>>

\* lines 200, 206-213: join_next yields a failed probe
JoinNextErr ==
    /\ pc = "join"
    /\ ready # <<>>
    /\ LET i == Head(ready) IN
         /\ ~set[i].ok
         /\ set' = [set EXCEPT ![i].st = "joined"]
         /\ ready' = Tail(ready)
    /\ pc' = IF Enough(left) THEN "shutdown" ELSE "join"
    /\ UNCHANGED <<input, self_mirrors, args, prev, mirrors, left, overflow_checks>>

\* line 200: join_next yields None, the JoinSet is empty
JoinNextNone ==
    /\ pc = "join"
    /\ \A i \in DOMAIN set : set[i].st \in {"none", "joined"}
    /\ pc' = "shutdown"
    /\ UNCHANGED <<input, self_mirrors, args, prev, mirrors, set, ready, left,
                   overflow_checks>>

\* line 215: set.shutdown().await aborts what runs and drops what is unconsumed
Shutdown ==
    /\ pc = "shutdown"
    /\ set' = [i \in DOMAIN set |->
                 IF set[i].st = "running" THEN [set[i] EXCEPT !.st = "aborted"]
                 ELSE IF set[i].st = "ready" THEN [set[i] EXCEPT !.st = "discarded"]
                 ELSE set[i]]
    /\ ready' = <<>>
    /\ pc' = "reconcile"
    /\ UNCHANGED <<input, self_mirrors, args, prev, mirrors, left, overflow_checks>>

\* lines 217-228: push not updated mirrors
Reconcile ==
    /\ pc = "reconcile"
    /\ LET ok_urls == {self_mirrors[j].url : j \in 1..Len(self_mirrors)}
           NotUpdated(m) == m.url \notin ok_urls
       IN  self_mirrors' = self_mirrors \o SelectSeq(mirrors, NotUpdated)
    /\ mirrors' = <<>>
    /\ pc' = "done"
    /\ UNCHANGED <<input, args, prev, set, ready, left, overflow_checks>>

Next ==
    \/ Launch
    \/ \E i \in 1..MaxN : TaskComplete(i)
    \/ JoinNextOk
    \/ JoinNextErr
    \/ JoinNextNone
    \/ Shutdown
    \/ Reconcile

Spec == Init /\ [][Next]_vars

\* every launched probe eventually reports; the coordinator keeps running
LiveSpec ==
    /\ Spec
    /\ WF_vars(Next)
    /\ \A i \in 1..MaxN : WF_vars(TaskComplete(i))

-----------------------------------------------------------------------------
(* Properties of update_download_rate *)

\* how many endpoints of s carry a measured rate
Rated(s) == Cardinality({j \in 1..Len(s) : s[j].download_rate.some})

\* how many endpoints of s are the endpoint m
Times(s, m) == Cardinality({j \in 1..Len(s) : s[j] = m})

\* tasks whose probe reported success / whose success the coordinator consumed
Succeeded == {i \in 1..Len(input) : set[i].ok}

JoinedOk == {i \in 1..Len(input) : set[i].st = "joined" /\ set[i].ok}

\* C1: after update_download_rate with limit <= N the directory has exactly N
\* endpoints and every endpoint of the input is present exactly once.
C1_Reconciliation ==
    (pc = "done" /\ args.limit <= Len(input)) =>
        /\ Len(self_mirrors) = Len(input)
        /\ \A i \in 1..Len(input) :
              Cardinality({j \in 1..Len(self_mirrors) :
                              /\ self_mirrors[j].url = input[i].url
                              /\ self_mirrors[j].details = input[i].details}) = 1

\* C2: with limit = 0 on a non-empty directory the call returns normally and
\* leaves every endpoint unchanged, its rate unset.
C2_LimitZeroNoProbing ==
    (args.limit = 0 /\ Len(input) > 0) =>
        /\ pc # "panicked"
        /\ pc = "done" => self_mirrors = input

\* C5: with 1 <= limit = k < N and at least k successful probes, the
\* coordinator consumes exactly k successes and exactly k endpoints of the
\* output carry a measured rate; it never consumes more than k successes.
C5_EarlyExit ==
    (1 <= args.limit /\ args.limit < Len(input)) =>
        /\ Cardinality(JoinedOk) <= args.limit
        /\ (pc = "done" /\ Cardinality(Succeeded) >= args.limit) =>
              /\ Cardinality(JoinedOk) = args.limit
              /\ Rated(self_mirrors) = args.limit

\* C5 witness: the call returned at the k-th success while one probe had
\* completed unconsumed and another was still in flight.
C5_Witness ==
    /\ pc = "done"
    /\ 1 <= args.limit /\ args.limit < Len(input)
    /\ Cardinality(JoinedOk) = args.limit
    /\ \E i \in 1..Len(input) : set[i].st = "discarded" /\ set[i].ok
    /\ \E i \in 1..Len(input) : set[i].st = "aborted"

\* C6: when every probe eventually reports, update_download_rate eventually
\* returns, for every limit and every pattern of outcomes.
C6_Terminates == <>(pc = "done")

\* C7: after the call an endpoint carries a rate iff its probe succeeded and
\* was consumed; every other endpoint is carried over unchanged.
C7_RateIffConsumedSuccess ==
    pc = "done" =>
        /\ \A i \in 1..Len(input) :
              Times(self_mirrors, IF i \in JoinedOk THEN Updated(input[i], set[i].bw)
                                  ELSE input[i]) = 1
        /\ Rated(self_mirrors) = Cardinality(JoinedOk)

-----------------------------------------------------------------------------
(* MirrorList::sort *)

MaxSortLen == 3

SortKeys == {"Age", "Rate", "Country", "Score", "Delay"}

I32_MAX == 2147483647

I32_MIN == -I32_MAX - 1

F64(neg, giga, unit, tenth) ==
    [inf |-> FALSE, neg |-> neg, giga |-> giga, unit |-> unit, tenth |-> tenth]

\* f64::INFINITY
INFINITY == [inf |-> TRUE, neg |-> FALSE, giga |-> 0, unit |-> 0, tenth |-> 0]

\* f64::round: to the nearest whole number, half away from zero
round(x) ==
    IF x.inf \/ x.tenth < 5 THEN [x EXCEPT !.tenth = 0]
    ELSE IF x.unit + 1 = 1000000000
         THEN [x EXCEPT !.giga = x.giga + 1, !.unit = 0, !.tenth = 0]
         ELSE [x EXCEPT !.unit = x.unit + 1, !.tenth = 0]

\* `as i32` on a whole f64: saturating
as_i32(x) ==
    IF x.inf THEN I32_MAX
    ELSE IF x.giga > 2 \/ (x.giga = 2 /\ x.unit > 147483647)
         THEN (IF x.neg THEN I32_MIN ELSE I32_MAX)
         ELSE (IF x.neg THEN -1 ELSE 1) * (x.giga * 1000000000 + x.unit)

\* Option::unwrap_or
unwrap_or(o, d) == IF o.some THEN o.v ELSE d

\* Ord on integers
IntCmp(a, b) == IF a < b THEN "Less" ELSE IF a > b THEN "Greater" ELSE "Equal"

\* Ord on String: byte-wise lexicographic
RECURSIVE StrCmp(_, _)
StrCmp(a, b) ==
    IF a = <<>> /\ b = <<>> THEN "Equal"
    ELSE IF a = <<>> THEN "Less"
    ELSE IF b = <<>> THEN "Greater"
    ELSE IF Head(a) # Head(b) THEN IntCmp(Head(a), Head(b))
    ELSE StrCmp(Tail(a), Tail(b))

\* lines 94-115: the comparison each sort key gives sort_by / sort_by_key
Compare(by, m, n) ==
    CASE by = "Age" ->
            \* DateTime::<Utc>::default() is 1970-01-01T00:00:00Z
            IntCmp(unwrap_or(m.last_sync, 0), unwrap_or(n.last_sync, 0))
      [] by = "Rate" ->
            LET c == partial_cmp(unwrap_or(n.download_rate, BandwidthDefault),
                                 unwrap_or(m.download_rate, BandwidthDefault))
            IN  IF c = "None" THEN "Equal" ELSE c
      [] by = "Country" ->
            StrCmp(unwrap_or(m.country, <<>>), unwrap_or(n.country, <<>>))
      [] by = "Score" ->
            IntCmp(as_i32(round(unwrap_or(m.score, INFINITY))),
                   as_i32(round(unwrap_or(n.score, INFINITY))))
      [] by = "Delay" ->
            IntCmp(as_i32(round(unwrap_or(m.delay, INFINITY))),
                   as_i32(round(unwrap_or(n.delay, INFINITY))))

\* insertion of x into a sorted run, from its tail; x stays behind its equals
RECURSIVE InsertTail(_, _, _)
InsertTail(s, x, by) ==
    IF s = <<>> \/ Compare(by, x, s[Len(s)]) # "Less" THEN Append(s, x)
    ELSE Append(InsertTail(SubSeq(s, 1, Len(s) - 1), x, by), s[Len(s)])

\* the stable insertion sort: what slice::sort_by / sort_by_key do on a slice
\* of at most InsertionSortMax elements, and the one stable order of any
\* slice on which the comparison is a total order
RECURSIVE StableSort(_, _)
StableSort(s, by) ==
    IF s = <<>> THEN <<>>
    ELSE InsertTail(StableSort(SubSeq(s, 1, Len(s) - 1), by), s[Len(s)], by)

\* the longest slice the standard library's stable sort always sorts by
\* insertion
InsertionSortMax == 20

\* the comparison of key `by` is a total order on the elements of s, as
\* slice::sort_by requires: reversing the operands reverses the result, and
\* each of <, == and > is transitive
TotalOrder(s, by) ==
    LET ms == {[s[i] EXCEPT !.details = 0] : i \in 1..Len(s)}
    IN  /\ \A m, n \in ms :
              (Compare(by, m, n) = "Less") = (Compare(by, n, m) = "Greater")
        /\ \A r \in {"Less", "Equal", "Greater"} :
              \A m, n, o \in ms :
                  (Compare(by, m, n) = r /\ Compare(by, n, o) = r) =>
                      Compare(by, m, o) = r

\* slice::sort_by / sort_by_key as called at lines 95-114, the outcomes: the
\* stable order; or, on a slice longer than InsertionSortMax with a
\* comparison that is not a total order (Rate with NaN), either a panic or
\* the endpoints left in an order the library does not specify
sort_by(s, by) ==
    IF Len(s) <= InsertionSortMax \/ TotalOrder(s, by)
    THEN {[res |-> "ok", mirrors |-> StableSort(s, by)]}
    ELSE {[res |-> "panicked", mirrors |-> s], [res |-> "unspecified", mirrors |-> s]}

\* 1969-12-31T00:00:00Z, the epoch, 2024-04-01T08:22:54Z, 2024-05-01T14:25:08Z
SyncTimes == {NoTime, SomeTime(-86400), SomeTime(0), SomeTime(1711959774),
              SomeTime(1714573508)}

SortRates ==
    {NoRate} \cup {SomeRate(from_duration(ms, b)) : ms \in {0, 2}, b \in {0, 3, 8}}

\* null, "", "A", "AB", "a"
Countries == {NoStr, SomeStr(<<>>), SomeStr(<<65>>), SomeStr(<<65, 66>>), SomeStr(<<97>>)}

\* null, 1.4, 1.5, 2.0, 3000000000.0, 4000000000.0
Floats == {NoF64, SomeF64(F64(FALSE, 0, 1, 4)), SomeF64(F64(FALSE, 0, 1, 5)),
           SomeF64(F64(FALSE, 0, 2, 0)), SomeF64(F64(FALSE, 3, 0, 0)),
           SomeF64(F64(FALSE, 4, 0, 0))}

FieldValues(by) ==
    CASE by = "Age" -> SyncTimes
      [] by = "Rate" -> SortRates
      [] by = "Country" -> Countries
      [] by = "Score" -> Floats
      [] by = "Delay" -> Floats

WithField(m, by, x) ==
    CASE by = "Age" -> [m EXCEPT !.last_sync = x]
      [] by = "Rate" -> [m EXCEPT !.download_rate = x]
      [] by = "Country" -> [m EXCEPT !.country = x]
      [] by = "Score" -> [m EXCEPT !.score = x]
      [] by = "Delay" -> [m EXCEPT !.delay = x]

SortDirs(by) ==
    {[i \in 1..Len(xs) |-> WithField(Mirror("u1", i), by, xs[i])] :
        xs \in SeqsUpTo(FieldValues(by), MaxSortLen)}

\* the elements of the finite set S, in some order
RECURSIVE SeqOf(_)
SeqOf(S) ==
    IF S = {} THEN <<>>
    ELSE LET x == CHOOSE y \in S : TRUE IN <<x>> \o SeqOf(S \ {x})

\* directories one endpoint longer than InsertionSortMax: for each set of
\* values of the key, its values repeated in turn
LongDirs(by) ==
    {[i \in 1..(InsertionSortMax + 1) |->
         WithField(Mirror("u1", i), by, SeqOf(V)[(i % Cardinality(V)) + 1])] :
        V \in (SUBSET FieldValues(by)) \ {{}}}

InitSort ==
    /\ args \in {[by |-> k] : k \in SortKeys}
    /\ input \in SortDirs(args.by) \cup LongDirs(args.by)
    /\ self_mirrors = input
    /\ pc = "start"
    /\ prev = input
    /\ mirrors = <<>>
    /\ set = [i \in 1..MaxN |-> NoTask]
    /\ ready = <<>>
    /\ left = 0
    /\ overflow_checks = FALSE

\* lines 93-116: MirrorList::sort(by), called once and then once more
Sort ==
    /\ pc \in {"start", "sorted"}
    /\ prev' = self_mirrors
    /\ \E o \in sort_by(self_mirrors, args.by) :
          /\ self_mirrors' = o.mirrors
          /\ pc' = IF o.res # "ok" THEN o.res
                   ELSE IF pc = "start" THEN "sorted" ELSE "resorted"
    /\ UNCHANGED <<input, args, mirrors, set, ready, left, overflow_checks>>

NextSort == Sort

SpecSort == InitSort /\ [][NextSort]_vars

-----------------------------------------------------------------------------
(* Properties of sort *)

Sorted == pc \in {"sorted", "resorted"}

\* position in s of the mirror tagged d
PosOf(s, d) == CHOOSE j \in 1..Len(s) : s[j].details = d

IsReal(r) == r.some /\ ~r.v.nan

\* a >= b on real rates
RateGeq(a, b) == a.v.num * b.v.den >= b.v.num * a.v.den

\* C3: after sort(Rate) no missing or NaN rate precedes a real rate, and the
\* real rates are in descending order.
C3_RateDescendingNaNLast ==
    (Sorted /\ args.by = "Rate") =>
        \A i, j \in 1..Len(self_mirrors) :
            (i < j /\ IsReal(self_mirrors[j].download_rate)) =>
                /\ IsReal(self_mirrors[i].download_rate)
                /\ RateGeq(self_mirrors[i].download_rate, self_mirrors[j].download_rate)

\* C8: for each key, sort returns, with the endpoints in an order of its
\* own: it keeps the endpoints, keeps the relative order of endpoints that
\* compare equal, leaves a sorted directory unchanged, and a second sort
\* changes nothing.
C8_StableIdempotent ==
    /\ pc \notin {"panicked", "unspecified"}
    /\ Sorted =>
        /\ Len(self_mirrors) = Len(prev)
        /\ \A i \in 1..Len(prev) :
              \E j \in 1..Len(self_mirrors) : self_mirrors[j] = prev[i]
        /\ \A i, j \in 1..Len(prev) :
              (i < j /\ Compare(args.by, prev[i], prev[j]) = "Equal") =>
                  PosOf(self_mirrors, prev[i].details) < PosOf(self_mirrors, prev[j].details)
        /\ (\A i, j \in 1..Len(prev) :
               i < j => Compare(args.by, prev[i], prev[j]) # "Greater")
              => self_mirrors = prev
        /\ pc = "resorted" => self_mirrors = prev

\* C9: after sort(Age) no endpoint with a timestamp precedes one without,
\* and the timestamps are in ascending order.
C9_AgeMissingFirst ==
    (Sorted /\ args.by = "Age") =>
        \A i, j \in 1..Len(self_mirrors) :
            i < j =>
               LET a == self_mirrors[i].last_sync
                   b == self_mirrors[j].last_sync
               IN  /\ ~(a.some /\ ~b.some)
                   /\ (a.some /\ b.some) => a.v <= b.v

\* a <= b on whole f64 values
WholeLeq(a, b) ==
    LET Mag(x) == <<x.giga, x.unit>>
        MagLeq(x, y) == x.giga < y.giga \/ (x.giga = y.giga /\ x.unit <= y.unit)
        Zero(x) == x.giga = 0 /\ x.unit = 0
    IN  IF a.neg /\ ~Zero(a) THEN (IF b.neg /\ ~Zero(b) THEN MagLeq(b, a) ELSE TRUE)
        ELSE (IF b.neg /\ ~Zero(b) THEN FALSE ELSE MagLeq(a, b))

SortField(m) == IF args.by = "Score" THEN m.score ELSE m.delay

\* C10: after sort by Score (Delay) no endpoint without a score (delay)
\* precedes one that has it, and the rounded values are in ascending order.
C10_ScoreDelayMissingLast ==
    (Sorted /\ args.by \in {"Score", "Delay"}) =>
        \A i, j \in 1..Len(self_mirrors) :
            i < j =>
               LET a == SortField(self_mirrors[i])
                   b == SortField(self_mirrors[j])
               IN  /\ ~(~a.some /\ b.some)
                   /\ (a.some /\ b.some) => WholeLeq(round(a.v), round(b.v))

-----------------------------------------------------------------------------
(* MirrorList::filter *)

MaxFilterLen == 2

Protocols == {"ftp", "https", "http", "rsync"}

\* chrono::Duration::num_hours / num_minutes of a duration of d seconds
num_hours(d) == TruncDiv(d, 3600)

num_minutes(d) == TruncDiv(d, 60)

\* lines 364-366: Mirror::age, in seconds, at the instant `now`
age(m, now) ==
    IF m.last_sync.some THEN [some |-> TRUE, v |-> now - m.last_sync.v]
    ELSE [some |-> FALSE, v |-> 0]

RECURSIVE Pow2(_)
Pow2(n) == IF n = 0 THEN 1 ELSE 2 * Pow2(n - 1)

\* A finite f64 is held as (-1)^neg * (hi * 2^27 + lo) * 2^e, its 53-bit
\* significand in two parts: 2^25 <= hi < 2^26 and 0 <= lo < 2^27, or zero.
f64_zero == [neg |-> FALSE, hi |-> 0, lo |-> 0, e |-> 0]

\* the j with d * 2^j <= n < d * 2^(j+1), for n >= 1 and d >= 1
RECURSIVE Log2Floor(_, _)
Log2Floor(n, d) ==
    IF n >= 2 * d THEN Log2Floor(n, 2 * d) + 1
    ELSE IF n < d THEN Log2Floor(2 * n, d) - 1
    ELSE 0

\* the next k bits of the quotient r / den (r < den < 2^27), four at a
\* time, and the remainder
RECURSIVE DivBits(_, _, _)
DivBits(r, den, k) ==
    IF k = 0 THEN [q |-> 0, r |-> r]
    ELSE LET s == IF k % 4 = 0 THEN 4 ELSE k % 4
             p == DivBits(r, den, k - s)
         IN  [q |-> p.q * Pow2(s) + (p.r * Pow2(s)) \div den,
              r |-> (p.r * Pow2(s)) % den]

\* the significand of x plus one
Bump(x) ==
    IF x.lo + 1 < Pow2(27) THEN [x EXCEPT !.lo = x.lo + 1]
    ELSE IF x.hi + 1 < Pow2(26) THEN [x EXCEPT !.hi = x.hi + 1, !.lo = 0]
    ELSE [x EXCEPT !.hi = Pow2(25), !.lo = 0, !.e = x.e + 1]

\* IEEE 754 round to nearest, ties to even: g is the first bit dropped below
\* the significand of x, st says whether any later dropped bit is set
RoundEven(x, g, st) ==
    IF g /\ (st \/ x.lo % 2 = 1) THEN Bump(x) ELSE x

\* `n as f64 / d as f64` for integers n and d >= 1 (both exact as f64): the
\* f64 nearest to n / d
f64_div(n, d) ==
    IF n = 0 THEN f64_zero
    ELSE LET a == IF n < 0 THEN -n ELSE n
             j == Log2Floor(a, d)
             num == IF j >= 0 THEN a ELSE a * Pow2(-j)
             den == IF j >= 0 THEN d * Pow2(j) ELSE d
             h == DivBits(num - den, den, 25)
             l == DivBits(h.r, den, 27)
         IN  RoundEven([neg |-> n < 0, hi |-> Pow2(25) + h.q, lo |-> l.q, e |-> j - 52],
                       2 * l.r >= den, 2 * l.r # den /\ l.r # 0)

\* `n as f64` for an i64 n (exact below 2^53)
as_f64(n) == f64_div(n, 1)

\* bit i of the significand of y
MBit(y, i) ==
    IF i >= 53 THEN FALSE
    ELSE IF i < 27 THEN (y.lo \div Pow2(i)) % 2 = 1
    ELSE (y.hi \div Pow2(i - 27)) % 2 = 1

\* whether a bit below bit i of the significand of y is set
MLow(y, i) ==
    IF i >= 53 THEN y.hi # 0 \/ y.lo # 0
    ELSE IF i <= 27 THEN y.lo % Pow2(i) # 0
    ELSE y.lo # 0 \/ y.hi % Pow2(i - 27) # 0

\* f64 `x + y` for x and y of the same sign, as the operands of line 248 are
f64_add(x, y) ==
    IF x.hi = 0 THEN y
    ELSE IF y.hi = 0 THEN x
    ELSE LET big == IF x.e >= y.e THEN x ELSE y
             small == IF x.e >= y.e THEN y ELSE x
             d == big.e - small.e
             shi == IF d >= 27 THEN 0 ELSE small.hi \div Pow2(d)
             slo == IF d >= 53 THEN 0
                    ELSE IF d >= 27 THEN small.hi \div Pow2(d - 27)
                    ELSE small.lo \div Pow2(d) + (small.hi % Pow2(d)) * Pow2(27 - d)
             g == d >= 1 /\ MBit(small, d - 1)
             st == d >= 2 /\ MLow(small, d - 1)
             lo == (big.lo + slo) % Pow2(27)
             hi == big.hi + shi + (big.lo + slo) \div Pow2(27)
         IN  IF hi < Pow2(26)
             THEN RoundEven([big EXCEPT !.hi = hi, !.lo = lo], g, st)
             ELSE RoundEven([big EXCEPT !.hi = hi \div 2,
                                        !.lo = lo \div 2 + (hi % 2) * Pow2(26),
                                        !.e = big.e + 1],
                            lo % 2 = 1, g \/ st)

\* |x| < |y|
MagLt(x, y) ==
    IF y.hi = 0 THEN FALSE
    ELSE IF x.hi = 0 THEN TRUE
    ELSE \/ x.e < y.e
         \/ x.e = y.e /\ x.hi < y.hi
         \/ x.e = y.e /\ x.hi = y.hi /\ x.lo < y.lo

\* f64 `x < y`
f64_lt(x, y) ==
    IF x.neg /\ x.hi # 0
    THEN (IF y.neg /\ y.hi # 0 THEN MagLt(y, x) ELSE TRUE)
    ELSE (IF y.neg /\ y.hi # 0 THEN FALSE ELSE MagLt(x, y))

\* an age comparison on the whole hours alone
AgeBelowHours(d, c) == f64_lt(as_f64(num_hours(d)), f64_div(c, 60))

\* line 248: d.num_hours() as f64 + d.num_minutes() as f64 / 60.0 < age, each
\* operation rounded as f64; the cutoff `age` is the f64 c / 60.0
AgeBelow(d, c) ==
    f64_lt(f64_add(as_f64(num_hours(d)), f64_div(num_minutes(d), 60)), f64_div(c, 60))

\* as filter, but an absent capability flag counts as true
filter_absent_true(ml, a) ==
    LET KeepAge(m) == age(m, a.now).some /\ AgeBelow(age(m, a.now).v, a.age.v)
        KeepIsos(m) == unwrap_or(m.isos, TRUE)
        KeepIpv4(m) == unwrap_or(m.ipv4, TRUE)
        KeepIpv6(m) == unwrap_or(m.ipv6, TRUE)
        KeepProtocol(m) == m.protocol \in a.protocol
        ml1 == IF a.age.some THEN SelectSeq(ml, KeepAge) ELSE ml
        ml2 == IF a.isos THEN SelectSeq(ml1, KeepIsos) ELSE ml1
        ml3 == IF a.ipv4 THEN SelectSeq(ml2, KeepIpv4) ELSE ml2
        ml4 == IF a.ipv6 THEN SelectSeq(ml3, KeepIpv6) ELSE ml3
    IN  IF a.protocol # {} THEN SelectSeq(ml4, KeepProtocol) ELSE ml4

\* lines 237-269: MirrorList::filter
filter(ml, a) ==
    LET KeepAge(m) == age(m, a.now).some /\ AgeBelow(age(m, a.now).v, a.age.v)
        KeepIsos(m) == unwrap_or(m.isos, FALSE)
        KeepIpv4(m) == unwrap_or(m.ipv4, FALSE)
        KeepIpv6(m) == unwrap_or(m.ipv6, FALSE)
        KeepProtocol(m) == m.protocol \in a.protocol
        ml1 == IF a.age.some THEN SelectSeq(ml, KeepAge) ELSE ml
        ml2 == IF a.isos THEN SelectSeq(ml1, KeepIsos) ELSE ml1
        ml3 == IF a.ipv4 THEN SelectSeq(ml2, KeepIpv4) ELSE ml2
        ml4 == IF a.ipv6 THEN SelectSeq(ml3, KeepIpv6) ELSE ml3
    IN  IF a.protocol # {} THEN SelectSeq(ml4, KeepProtocol) ELSE ml4

\* 2026-10-29T12:00:00Z
Nows == {1793275200}

\* seconds since the last synchronisation: -10 min, 0, 50 min, 90 min, 19 h
AgeSeconds == {-600, 0, 3000, 5400, 68400}

\* age cutoffs c, for the f64 c / 60.0 hours: none, 0, 0.7, 1.5, 2.0, 2.5
AgeCutoffs == {[some |-> FALSE, v |-> 0]}
                 \cup {[some |-> TRUE, v |-> c] : c \in {0, 42, 90, 120, 150}}

FilterArgs ==
    [now : Nows, age : AgeCutoffs, isos : BOOLEAN, ipv4 : BOOLEAN, ipv6 : BOOLEAN,
     protocol : {{}, {"https"}}]

FilterMirrors(now) ==
    {[Mirror("u1", 0) EXCEPT !.last_sync = t, !.isos = f, !.ipv4 = f, !.ipv6 = f,
                             !.protocol = p] :
        t \in {NoTime} \cup {SomeTime(now - d) : d \in AgeSeconds},
        f \in {NoBool, SomeBool(TRUE)},
        p \in {"https", "rsync"}}

InitFilter ==
    /\ args \in FilterArgs
    /\ input \in {[i \in 1..Len(ms) |-> [ms[i] EXCEPT !.details = i]] :
                     ms \in SeqsUpTo(FilterMirrors(args.now), MaxFilterLen)}
    /\ self_mirrors = input
    /\ pc = "start"
    /\ prev = input
    /\ mirrors = <<>>
    /\ set = [i \in 1..MaxN |-> NoTask]
    /\ ready = <<>>
    /\ left = 0
    /\ overflow_checks = FALSE

\* MirrorList::filter called with args
Filter ==
    /\ pc = "start"
    /\ prev' = self_mirrors
    /\ self_mirrors' = filter(self_mirrors, args)
    /\ pc' = "filtered"
    /\ UNCHANGED <<input, args, mirrors, set, ready, left, overflow_checks>>

NextFilter == Filter

SpecFilter == InitFilter /\ [][NextFilter]_vars

-----------------------------------------------------------------------------
(* Properties of filter *)

\* whole hours plus the remaining minutes / 60, times 60: the elapsed minutes
ElapsedMinutes(d) == 60 * num_hours(d) + (num_minutes(d) - 60 * num_hours(d))

\* C4: with only an age cutoff c, filter keeps exactly the endpoints that have
\* a last synchronisation and whose age in hours, to the minute, is below c.
C4_AgeCutoff ==
    (pc = "filtered" /\ args.age.some /\ ~args.isos /\ ~args.ipv4 /\ ~args.ipv6
        /\ args.protocol = {}) =>
        LET Keep(m) == /\ m.last_sync.some
                       /\ ElapsedMinutes(args.now - m.last_sync.v) < args.age.v
        IN  self_mirrors = SelectSeq(prev, Keep)

-----------------------------------------------------------------------------
(* MirrorList::filter, every criterion *)

OptBools == {NoBool, SomeBool(TRUE), SomeBool(FALSE)}

FilterMirror(t, i4, i6, iso, p) ==
    [Mirror("u1", 0) EXCEPT !.last_sync = t, !.isos = iso, !.ipv4 = i4, !.ipv6 = i6,
                            !.protocol = p]

LastSyncs(now) == {NoTime} \cup {SomeTime(now - d) : d \in AgeSeconds}

\* every kind of endpoint the criteria can tell apart
AllFilterMirrors(now) ==
    {FilterMirror(t, i4, i6, iso, p) :
        t \in LastSyncs(now), i4 \in OptBools, i6 \in OptBools, iso \in OptBools,
        p \in Protocols}

\* the kinds that directories of several endpoints are built from
SomeFilterMirrors(now) ==
    {FilterMirror(t, f[1], f[2], f[3], p) :
        t \in {NoTime, SomeTime(now + 600)},
        f \in {<<NoBool, NoBool, NoBool>>,
               <<SomeBool(TRUE), SomeBool(TRUE), SomeBool(TRUE)>>,
               <<SomeBool(TRUE), SomeBool(FALSE), NoBool>>,
               <<NoBool, SomeBool(TRUE), SomeBool(FALSE)>>},
        p \in {"https", "rsync"}}

AllFilterArgs ==
    [now : Nows, age : AgeCutoffs, isos : BOOLEAN, ipv4 : BOOLEAN, ipv6 : BOOLEAN,
     protocol : {{}, {"https"}, {"http", "rsync"}}]

Tagged(ms) == [i \in 1..Len(ms) |-> [ms[i] EXCEPT !.details = i]]

InitFilterAll ==
    /\ args \in AllFilterArgs
    /\ input \in {Tagged(<<m>>) : m \in AllFilterMirrors(args.now)}
                    \cup {Tagged(ms) : ms \in SeqsUpTo(SomeFilterMirrors(args.now), MaxFilterLen)}
    /\ self_mirrors = input
    /\ pc = "start"
    /\ prev = input
    /\ mirrors = <<>>
    /\ set = [i \in 1..MaxN |-> NoTask]
    /\ ready = <<>>
    /\ left = 0
    /\ overflow_checks = FALSE

SpecFilterAll == InitFilterAll /\ [][NextFilter]_vars

\* m meets every criterion of a that is active
MeetsAll(m, a) ==
    /\ a.age.some => (m.last_sync.some /\ AgeBelow(a.now - m.last_sync.v, a.age.v))
    /\ a.isos => (m.isos.some /\ m.isos.v)
    /\ a.ipv4 => (m.ipv4.some /\ m.ipv4.v)
    /\ a.ipv6 => (m.ipv6.some /\ m.ipv6.v)
    /\ a.protocol # {} => m.protocol \in a.protocol

NoCriteria(a) == ~a.age.some /\ ~a.isos /\ ~a.ipv4 /\ ~a.ipv6 /\ a.protocol = {}

\* C11: filter returns, in the original order, exactly the endpoints that meet
\* every active criterion (a flag only when present and true, a protocol only
\* when in a non-empty allow-list); with no criterion it returns the directory.
C11_FilterExactSubsequence ==
    pc = "filtered" =>
        /\ Len(self_mirrors) <= Len(prev)
        /\ \A j \in 1..Len(self_mirrors) : MeetsAll(self_mirrors[j], args)
        /\ \A i \in 1..Len(prev) :
              (\A j \in 1..Len(self_mirrors) : self_mirrors[j] # prev[i])
                  <=> ~MeetsAll(prev[i], args)
        /\ \A j, k \in 1..Len(self_mirrors) :
              j < k => self_mirrors[j].details < self_mirrors[k].details
        /\ \A j \in 1..Len(self_mirrors) :
              \E i \in 1..Len(prev) : prev[i] = self_mirrors[j]
        /\ NoCriteria(args) => self_mirrors = prev

\* C11 witness: a flag and a protocol allow-list were active, one endpoint was
\* kept and one with that flag absent was removed.
C11_Witness ==
    /\ pc = "filtered"
    /\ args.isos /\ args.protocol # {}
    /\ Len(self_mirrors) = 1 /\ Len(prev) = 2
    /\ \E i \in 1..Len(prev) : ~prev[i].isos.some /\ prev[i].protocol \in args.protocol

-----------------------------------------------------------------------------
(* MirrorList::filter, successive age cutoffs *)

\* seconds since the last synchronisation, with one of less than a minute
\* in the future and one of 64 minutes, for which 1.0 + 64.0 / 60.0 rounds
\* below 124.0 / 60.0
StepAgeSeconds == AgeSeconds \cup {-30, 3840}

\* age cutoffs c, for the f64 c / 60.0 hours: those of AgeCutoffs,
\* 124.0 / 60.0 and 1218.0 / 60.0
StepCutoffs == AgeCutoffs \cup {[some |-> TRUE, v |-> c] : c \in {124, 1218}}

AgedMirror(t) == [Mirror("u1", 0) EXCEPT !.last_sync = t]

\* one endpoint synchronised 10 minutes in the future, twenty synchronised
\* 0, 1, ..., 19 hours ago, one never synchronised
ScenarioDir(now) ==
    Tagged(<<AgedMirror(SomeTime(now + 600))>>
             \o [h \in 1..20 |-> AgedMirror(SomeTime(now - 3600 * (h - 1)))]
             \o <<AgedMirror(NoTime)>>)

\* tests::age_filter, lines 572-581: MIRROR0..MIRROR2, then twenty endpoints
\* synchronised at now + 10 min - h hours, h = 0..19
TestDir(now) ==
    Tagged(<<AgedMirror(NoTime), AgedMirror(SomeTime(1714573508)),
             AgedMirror(SomeTime(1711959774))>>
             \o [h \in 1..20 |-> AgedMirror(SomeTime(now + 600 - 3600 * (h - 1)))])

AgeOnly(now, c) ==
    [now |-> now, age |-> c, isos |-> FALSE, ipv4 |-> FALSE, ipv6 |-> FALSE,
     protocol |-> {}]

InitAgeSteps ==
    /\ args \in {AgeOnly(now, c) : now \in Nows, c \in StepCutoffs}
    /\ input \in {Tagged(ms) :
                     ms \in SeqsUpTo({AgedMirror(NoTime)}
                                        \cup {AgedMirror(SomeTime(args.now - d)) :
                                                 d \in StepAgeSeconds},
                                     MaxFilterLen)}
                    \cup {ScenarioDir(args.now), TestDir(args.now)}
    /\ self_mirrors = input
    /\ pc = "start"
    /\ prev = input
    /\ mirrors = <<>>
    /\ set = [i \in 1..MaxN |-> NoTask]
    /\ ready = <<>>
    /\ left = 0
    /\ overflow_checks = FALSE

\* MirrorList::filter called again, with a smaller age cutoff
FilterSmaller ==
    /\ pc \in {"filtered", "refiltered"}
    /\ \E c \in StepCutoffs :
          /\ c.some
          /\ args.age.some => c.v < args.age.v
          /\ args' = [args EXCEPT !.age = c]
          /\ self_mirrors' = filter(self_mirrors, args')
    /\ prev' = self_mirrors
    /\ pc' = "refiltered"
    /\ UNCHANGED <<input, mirrors, set, ready, left, overflow_checks>>

NextAgeSteps ==
    \/ Filter
    \/ FilterSmaller

SpecAgeSteps == InitAgeSteps /\ [][NextAgeSteps]_vars

-----------------------------------------------------------------------------
(* Properties of successive age cutoffs *)

Filtered == pc \in {"filtered", "refiltered"}

\* seconds by which m was last synchronised before args.now
AgeOf(m) == args.now - m.last_sync.v

Kept(m) == \E j \in 1..Len(self_mirrors) : self_mirrors[j] = m

\* every cutoff applied so far was an age cutoff
AgeCutoffApplied == Filtered /\ args.age.some

\* C12: a cutoff of 0.7 hours on one endpoint 10 minutes in the future, twenty
\* endpoints 0 to 19 hours old and endpoints never synchronised keeps only the
\* future one; an endpoint of negative age survives every cutoff >= 0; a
\* smaller cutoff never makes the directory larger.
C12_NegativeAgeScenario ==
    /\ (AgeCutoffApplied /\ args.age.v = 42 /\ input = ScenarioDir(args.now)) =>
          /\ Len(self_mirrors) = 1
          /\ AgeOf(self_mirrors[1]) = -600
    /\ AgeCutoffApplied =>
          \A i \in 1..Len(input) :
              (input[i].last_sync.some /\ AgeOf(input[i]) < 0) => Kept(input[i])
    /\ Filtered => Len(self_mirrors) <= Len(prev)

\* the directory has exactly one endpoint 10 minutes in the future, and every
\* other endpoint was never synchronised or is at least 50 minutes old
FutureAndOld(dir) ==
    /\ Cardinality({i \in 1..Len(dir) : dir[i].last_sync.some /\ AgeOf(dir[i]) = -600}) = 1
    /\ \A i \in 1..Len(dir) :
          dir[i].last_sync.some => (AgeOf(dir[i]) = -600 \/ AgeOf(dir[i]) >= 3000)

\* C12 as amended: a cutoff of 0.7 hours on one endpoint 10 minutes in the
\* future and endpoints at least 50 minutes old or never synchronised keeps
\* only the future one; an endpoint at least one minute in the future
\* survives every cutoff >= 0; a smaller cutoff never makes the directory
\* larger.
C12_Amended ==
    /\ (AgeCutoffApplied /\ args.age.v = 42 /\ FutureAndOld(input)) =>
          /\ Len(self_mirrors) = 1
          /\ AgeOf(self_mirrors[1]) = -600
    /\ AgeCutoffApplied =>
          \A i \in 1..Len(input) :
              (input[i].last_sync.some /\ AgeOf(input[i]) <= -60) => Kept(input[i])
    /\ Filtered => Len(self_mirrors) <= Len(prev)

\* C12 witness: the directory of tests::age_filter, filtered with successively
\* smaller cutoffs down to 0, is left with its one future endpoint.
C12_Witness ==
    /\ pc = "refiltered"
    /\ input = TestDir(args.now)
    /\ args.age.v = 0
    /\ Len(prev) > 1
    /\ Len(self_mirrors) = 1
    /\ AgeOf(self_mirrors[1]) = -600

-----------------------------------------------------------------------------
(* MirrorList::filter and MirrorList::sort, in either order *)

CommuteArgs ==
    [by : SortKeys, now : Nows,
     age : {[some |-> FALSE, v |-> 0], [some |-> TRUE, v |-> 42]},
     isos : BOOLEAN, ipv4 : {FALSE}, ipv6 : {FALSE}, protocol : {{}}]

CommuteMirrors(by) ==
    {[WithField(Mirror("u1", 0), by, x) EXCEPT !.isos = iso] :
        x \in FieldValues(by), iso \in {NoBool, SomeBool(TRUE)}}

InitCommute ==
    /\ args \in CommuteArgs
    /\ input \in {Tagged(ms) : ms \in SeqsUpTo(CommuteMirrors(args.by), MaxSortLen)}
    /\ self_mirrors = input
    /\ pc = "start"
    /\ prev = input
    /\ mirrors = <<>>
    /\ set = [i \in 1..MaxN |-> NoTask]
    /\ ready = <<>>
    /\ left = 0
    /\ overflow_checks = FALSE

\* MirrorList::sort called first
SortFirst ==
    /\ pc = "start"
    /\ Sort

\* MirrorList::sort called on the filtered directory
SortFiltered ==
    /\ pc = "filtered"
    /\ prev' = self_mirrors
    /\ \E o \in sort_by(self_mirrors, args.by) :
          /\ self_mirrors' = o.mirrors
          /\ pc' = IF o.res # "ok" THEN o.res ELSE "filtered_sorted"
    /\ UNCHANGED <<input, args, mirrors, set, ready, left, overflow_checks>>

\* MirrorList::filter called on the sorted directory
FilterSorted ==
    /\ pc = "sorted"
    /\ prev' = self_mirrors
    /\ self_mirrors' = filter(self_mirrors, args)
    /\ pc' = "sorted_filtered"
    /\ UNCHANGED <<input, args, mirrors, set, ready, left, overflow_checks>>

NextCommute ==
    \/ Filter
    \/ SortFiltered
    \/ SortFirst
    \/ FilterSorted

SpecCommute == InitCommute /\ [][NextCommute]_vars

\* C13: filtering then sorting leaves the same directory as sorting then
\* filtering, and every endpoint left is an endpoint of the input, unchanged.
C13_FilterSortCommute ==
    /\ pc = "filtered_sorted" =>
          self_mirrors = filter(StableSort(input, args.by), args)
    /\ pc = "sorted_filtered" =>
          self_mirrors = StableSort(filter(input, args), args.by)
    /\ \A j \in 1..Len(self_mirrors) :
          \E i \in 1..Len(input) : input[i] = self_mirrors[j]

=============================================================================
